---- MODULE Spec2Model ----
(***************************************************************************)
(* A model of src/syntax/parsing.rs: the body parser parse, the function *)
(* parser FuncParser (header, arguments, expressions, tuples, objects,   *)
(* the comma-separated collection engine) and the escaping utilities.      *)
(*                                                                         *)
(* Source text is represented by the token sequence the external tokenizer *)
(* yields for it.  Positions are columns of a single line (integers); a    *)
(* span is a record [start, end]; Option values are sequences of length 0  *)
(* (None) or 1 (Some).                                                     *)
(***************************************************************************)
EXTENDS Integers, Sequences, FiniteSets, TLC

VARIABLES
    start,      \* the start position handed to parse
    src,        \* body tokens the tokenizer has yielded so far (spanned)
    model,      \* SyntaxModel: the nodes added so far
    feedback,   \* Feedback of parse: [problems, decos]
    done,       \* the token stream is exhausted and the Pass was returned
    header,     \* input of the function parser under study (unspanned tokens)
    out         \* what the operation applied to header returned

vars == <<start, src, model, feedback, done, header, out>>

----------------------------------------------------------------------------
(* Option, Span, Spanned, Feedback                                         *)

None == <<>>
Some(x) == <<x>>
IsSome(o) == Len(o) = 1
Get(o) == o[1]

Min(a, b) == IF a <= b THEN a ELSE b
Max(a, b) == IF a >= b THEN a ELSE b

SpanOf(s, e) == [start |-> s, end |-> e]
SpanAt(pos) == SpanOf(pos, pos)
SpanMerge(a, b) == SpanOf(Min(a.start, b.start), Max(a.end, b.end))
SpanOffset(span, delta) == SpanOf(span.start + delta, span.end + delta)
SpanZERO == SpanOf(0, 0)

Spanned(v, span) == [v |-> v, span |-> span]

FeedbackNew == [problems |-> <<>>, decos |-> <<>>]

\* error!(@feedback, span, message)
Error(fb, span, msg) ==
    [fb EXCEPT !.problems = Append(@, Spanned(msg, span))]

Deco(fb, span, deco) ==
    [fb EXCEPT !.decos = Append(@, Spanned(deco, span))]

\* Feedback::extend
Extend(fb, other) ==
    [problems |-> fb.problems \o other.problems,
     decos    |-> fb.decos \o other.decos]

OffsetAll(items, delta) ==
    [i \in 1..Len(items) |-> Spanned(items[i].v, SpanOffset(items[i].span, delta))]

\* Feedback::extend_offset
ExtendOffset(fb, delta, other) ==
    [problems |-> fb.problems \o OffsetAll(other.problems, delta),
     decos    |-> fb.decos \o OffsetAll(other.decos, delta)]

----------------------------------------------------------------------------
(* Tokens.  A token value is [k, x, terminated, header, body]: its kind,   *)
(* its text as a sequence of characters, the terminated flag of strings, *)
(* raw blocks and functions, and for a Function token the tokens of its    *)
(* header and, optionally, of its body.                                    *)

Tok(k, x) == [k |-> k, x |-> x, terminated |-> TRUE, header |-> <<>>, body |-> None]
Unterminated(t) == [t EXCEPT !.terminated = FALSE]
Function(hd, body, terminated) ==
    [k |-> "Function", x |-> <<>>, terminated |-> terminated,
     header |-> hd, body |-> body]

RECURSIVE Width(_)
RECURSIVE TotalWidth(_, _)

\* Number of characters of the first n tokens of ts.
TotalWidth(ts, n) == IF n = 0 THEN 0 ELSE TotalWidth(ts, n - 1) + Width(ts[n])

Width(t) ==
    CASE t.k = "Function" ->
            1 + TotalWidth(t.header, Len(t.header))
              + (IF t.terminated \/ IsSome(t.body) THEN 1 ELSE 0)
              + (IF IsSome(t.body)
                 THEN 1 + TotalWidth(Get(t.body), Len(Get(t.body)))
                        + (IF t.terminated THEN 1 ELSE 0)
                 ELSE 0)
      [] t.k \in {"ExprStr", "Raw"} -> 1 + Len(t.x) + (IF t.terminated THEN 1 ELSE 0)
      [] t.k = "ExprHex" -> 1 + Len(t.x)
      [] t.k = "LineComment" -> 2 + Len(t.x)
      [] t.k = "BlockComment" -> 4 + Len(t.x)
      [] t.k \in {"Space", "Text", "ExprIdent", "ExprNumber", "ExprSize",
                  "ExprBool", "Invalid"} -> Len(t.x)
      [] t.k = "StarSlash" -> 2
      [] OTHER -> 1

\* Tokens::new(start, src, mode): the spanned tokens of a source, spans
\* contiguous from the start.
Tokens(from, ts) ==
    [i \in 1..Len(ts) |->
        Spanned(ts[i], SpanOf(from + TotalWidth(ts, i - 1), from + TotalWidth(ts, i)))]

\* Token::name
Name(t) ==
    CASE t.k = "ExprStr" -> "string"
      [] t.k = "ExprNumber" -> "number"
      [] t.k = "ExprSize" -> "size"
      [] t.k = "ExprBool" -> "bool"
      [] t.k = "ExprIdent" -> "identifier"
      [] t.k = "ExprHex" -> "hex value"
      [] t.k = "Invalid" -> "invalid token"
      [] t.k = "Comma" -> "comma"
      [] t.k = "Colon" -> "colon"
      [] t.k = "Equals" -> "equals sign"
      [] t.k = "LeftParen" -> "opening paren"
      [] t.k = "RightParen" -> "closing paren"
      [] t.k = "LeftBrace" -> "opening brace"
      [] t.k = "RightBrace" -> "closing brace"
      [] t.k = "Plus" -> "plus"
      [] t.k = "Hyphen" -> "minus"
      [] t.k = "Star" -> "star"
      [] t.k = "Slash" -> "slash"
      [] t.k = "StarSlash" -> "end of block comment"
      [] t.k = "Function" -> "function"
      [] OTHER -> t.k

\* RgbaColor::from_str succeeds on 3, 4, 6 or 8 hexadecimal digits.
HexDigits == {"0", "1", "2", "3", "4", "5", "6", "7", "8", "9",
              "a", "b", "c", "d", "e", "f", "A", "B", "C", "D", "E", "F"}

IsValidColor(x) ==
    /\ Len(x) \in {3, 4, 6, 8}
    /\ \A i \in 1..Len(x) : x[i] \in HexDigits

----------------------------------------------------------------------------
(* FuncParser: the token cursor.  A parser value p is                      *)
(*   [tokens, from, n, peeked, feedback]                                   *)
(* where n counts the tokens pulled from the tokenizer and peeked is the   *)
(* one-token pushback buffer: "None", "Some" (holding tokens[n]) or        *)
(* "SomeNone" (the tokenizer was found exhausted).                         *)

HeaderStart == 1

\* A parser over the tokens of a header whose text starts at from.
FuncParserAt(from, hd) ==
    [tokens |-> Tokens(from, hd), from |-> from, n |-> 0, peeked |-> "None",
     feedback |-> FeedbackNew]

\* FuncParser::new(header, body, ctx)
FuncParserNew(hd) == FuncParserAt(HeaderStart, hd)

\* self.peeked.get_or_insert_with(|| iter.next())
Fill(p) ==
    IF p.peeked # "None" THEN p
    ELSE IF p.n < Len(p.tokens)
         THEN [p EXCEPT !.n = @ + 1, !.peeked = "Some"]
         ELSE [p EXCEPT !.peeked = "SomeNone"]

\* the token in a filled buffer
Buffered(p) == IF p.peeked = "Some" THEN Some(p.tokens[p.n]) ELSE None

peek(p) == Buffered(Fill(p))
peekv(p) == IF IsSome(peek(p)) THEN Some(Get(peek(p)).v) ELSE None
peekk(p) == IF IsSome(peek(p)) THEN Get(peek(p)).v.k ELSE "None"

\* eat: the parser after consuming the next token (the token is peek(p))
eat(p) == [Fill(p) EXCEPT !.peeked = "None"]

\* Tokens::pos: the end of the last token the tokenizer produced
TokensPos(p) == IF p.n = 0 THEN p.from ELSE p.tokens[p.n].span.end

pos(p) == IF p.peeked = "Some" THEN p.tokens[p.n].span.start ELSE TokensPos(p)

IsWhitespace(t) == t.k \in {"Space", "LineComment", "BlockComment"}

RECURSIVE skip_whitespace(_)
skip_whitespace(p) ==
    IF IsSome(peek(p)) /\ IsWhitespace(Get(peek(p)).v)
    THEN skip_whitespace(eat(p))
    ELSE Fill(p)

perr(p, span, msg) == [p EXCEPT !.feedback = Error(@, span, msg)]
pdeco(p, span, deco) == [p EXCEPT !.feedback = Deco(@, span, deco)]

expected_found(p, thing, found) ==
    perr(p, found.span, <<"expected", thing, "found", Name(found.v)>>)

\* expected_at one position late
ExpectedAtNext(p, thing, at) == perr(p, SpanAt(at + 1), <<"expected", thing>>)

expected_at(p, thing, at) == perr(p, SpanAt(at), <<"expected", thing>>)

expected_found_or_at(p, thing, found, at) ==
    IF IsSome(found) THEN expected_found(p, thing, Get(found))
    ELSE expected_at(p, thing, at)

\* A result of a parsing method: the parser afterwards and the Option returned.
Ret(p, r) == [p |-> p, r |-> r]

Ident(x) == [t |-> "Ident", name |-> x]

parse_ident(p) ==
    IF peekk(p) = "ExprIdent"
    THEN Ret(eat(p), Some(Spanned(Ident(Get(peek(p)).v.x), Get(peek(p)).span)))
    ELSE Ret(Fill(p), None)

----------------------------------------------------------------------------
(* FuncParser: expressions, tuples, objects and the collection engine.     *)

Binop(k, o1, o2) ==
    [t |-> CASE k = "Plus" -> "Add" [] k = "Hyphen" -> "Sub"
             [] k = "Star" -> "Mul" [] k = "Slash" -> "Div",
     l |-> o1, r |-> o2]

\* parse_op with the operators of the two tiers exchanged
ParseOpSwapped(operand_name, k) ==
    IF operand_name = "summand" THEN k \in {"Star", "Slash"}
    ELSE k \in {"Plus", "Hyphen"}

\* the parse_op closures of parse_expr ("summand") and parse_term ("factor")
parse_op(operand_name, k) ==
    IF operand_name = "summand" THEN k \in {"Plus", "Hyphen"}
    ELSE k \in {"Star", "Slash"}

\* A failed item: Err((expected, Option<Position>))
Err(p, expected, at) == [p |-> p, ok |-> FALSE, expected |-> expected, at |-> at]
Ok(p, item) == [p |-> p, ok |-> TRUE, item |-> item]

\* One call of the from_fn closure of parse_collection_comma_aware: None
\* ("stop"), Some(Some(item)) ("item") or Some(None) ("skip").
Yield(p, y, item, can_be_coerced) ==
    [p |-> p, yield |-> y, item |-> item, can_be_coerced |-> can_be_coerced]

\* unescape_string is defined with the escaping utilities below
RECURSIVE unescape_string(_)

\* The parsing methods call each other through Call(method, p, argument),
\* defined after them.
RECURSIVE Call(_, _, _)

parse_expr(p) ==
    LET o1 == Call("parse_term", p, None)
    IN  IF IsSome(o1.r)
        THEN Call("parse_binop", o1.p, [o1 |-> Get(o1.r), operand_name |-> "summand"])
        ELSE o1

parse_term(p) ==
    LET o1 == Call("parse_factor", p, None)
    IN  IF IsSome(o1.r)
        THEN Call("parse_binop", o1.p, [o1 |-> Get(o1.r), operand_name |-> "factor"])
        ELSE o1

\* parse_binop that returns nothing when the right operand is missing
BinopResultDiscarding(o1, operand_name, next, o2) ==
    IF IsSome(o2.r)
    THEN Ret(o2.p, Some(Spanned(Binop(next.v.k, o1, Get(o2.r)),
                                SpanMerge(o1.span, Get(o2.r).span))))
    ELSE Ret(perr(o2.p, SpanMerge(next.span, o1.span),
                  <<"missing right", operand_name>>),
             None)

\* parse_binop after the operator was found and the right operand parsed
BinopResult(o1, operand_name, next, o2) ==
    IF IsSome(o2.r)
    THEN Ret(o2.p, Some(Spanned(Binop(next.v.k, o1, Get(o2.r)),
                                SpanMerge(o1.span, Get(o2.r).span))))
    ELSE Ret(perr(o2.p, SpanMerge(next.span, o1.span),
                  <<"missing right", operand_name>>),
             Some(o1))

parse_binop(p, o1, operand_name) ==
    LET p1 == skip_whitespace(p)
        next == Buffered(p1)
    IN  IF IsSome(next) /\ parse_op(operand_name, Get(next).v.k)
        THEN BinopResult(o1, operand_name, Get(next),
                         Call(IF operand_name = "summand" THEN "parse_expr"
                              ELSE "parse_term",
                              skip_whitespace(eat(p1)), None))
        ELSE Ret(p1, Some(o1))

\* parse_factor after the hyphen was eaten and a value parsed
NegResult(first, factor) ==
    IF IsSome(factor.r)
    THEN Ret(factor.p, Some(Spanned([t |-> "Neg", e |-> Get(factor.r)],
                                    SpanMerge(first.span, Get(factor.r).span))))
    ELSE Ret(perr(factor.p, first.span, <<"dangling minus">>), None)

parse_factor(p) ==
    LET q == Fill(p)
        first == Buffered(q)
    IN  IF ~IsSome(first) THEN Ret(q, None)
        ELSE IF Get(first).v.k = "Hyphen"
        THEN NegResult(Get(first), Call("parse_value", skip_whitespace(eat(q)), None))
        ELSE Call("parse_value", q, None)

\* RgbaColor::new_healed(0, 0, 0, 255)
ColorHealed == [t |-> "Color", rgba |-> <<0, 0, 0, 255>>, healed |-> TRUE]
ColorFromStr(x) == [t |-> "Color", rgba |-> x, healed |-> FALSE]

NamedTupleExpr(t) ==
    Spanned([t |-> "NamedTuple", name |-> t.v.name, tuple |-> t.v.tuple], t.span)

\* The ExprIdent arm of parse_value: a named tuple or an identifier.
IdentValue(taken, name) ==
    IF peekk(taken) = "LeftParen"
    THEN LET t == Call("parse_named_tuple", taken, name)
         IN  Ret(t.p, Some(NamedTupleExpr(Get(t.r))))
    ELSE Ret(Fill(taken), Some(name))

\* The ExprStr arm of parse_value.
StrValue(q, v, span) ==
    Ret(eat(IF v.terminated THEN q ELSE expected_at(q, "quote", span.end)),
        Some(Spanned([t |-> "Str", s |-> unescape_string(v.x)], span)))

\* The ExprHex arm that gives up on an invalid color
HexValueUnhealed(q, v, span) ==
    IF IsValidColor(v.x)
    THEN Ret(eat(q), Some(Spanned(ColorFromStr(v.x), span)))
    ELSE Ret(perr(q, span, <<"invalid color">>), None)

\* The ExprHex arm of parse_value.
HexValue(q, v, span) ==
    IF IsValidColor(v.x)
    THEN Ret(eat(q), Some(Spanned(ColorFromStr(v.x), span)))
    ELSE Ret(eat(perr(q, span, <<"invalid color">>)), Some(Spanned(ColorHealed, span)))

\* The LeftParen arm without the test of the comma flag
CoerceAnyway(t) ==
    IF Len(t.v.v.items) > 0
    THEN Ret(t.p, Some(t.v.v.items[Len(t.v.v.items)]))
    ELSE Ret(t.p, Some(Spanned([t |-> "Tuple", items |-> t.v.v.items], t.v.span)))

\* The LeftParen arm of parse_value: coerce a 1-tuple into a value.
Coerce(t) ==
    IF t.can_be_coerced /\ Len(t.v.v.items) > 0
    THEN Ret(t.p, Some(t.v.v.items[Len(t.v.v.items)]))
    ELSE Ret(t.p, Some(Spanned([t |-> "Tuple", items |-> t.v.v.items], t.v.span)))

ObjectValue(o) ==
    Ret(o.p, Some(Spanned([t |-> "Object", pairs |-> o.v.v.items], o.v.span)))

\* The match of parse_value on the peeked token.
ValueOf(q, v, span) ==
    CASE v.k = "ExprIdent" -> IdentValue(eat(q), Spanned(Ident(v.x), span))
      [] v.k = "ExprStr" -> StrValue(q, v, span)
      [] v.k = "ExprNumber" -> Ret(eat(q), Some(Spanned([t |-> "Number", n |-> v.x], span)))
      [] v.k = "ExprSize" -> Ret(eat(q), Some(Spanned([t |-> "Size", s |-> v.x], span)))
      [] v.k = "ExprBool" -> Ret(eat(q), Some(Spanned([t |-> "Bool", b |-> v.x], span)))
      [] v.k = "ExprHex" -> HexValue(q, v, span)
      [] v.k = "LeftParen" -> Coerce(Call("parse_tuple", q, None))
      [] v.k = "LeftBrace" -> ObjectValue(Call("parse_object", q, None))
      [] OTHER -> Ret(q, None)

parse_value(p) ==
    LET q == Fill(p)
    IN  IF q.peeked = "Some" THEN ValueOf(q, q.tokens[q.n].v, q.tokens[q.n].span)
        ELSE Ret(q, None)

parse_tuple(p) ==
    Call("parse_collection_comma_aware", eat(p), [end |-> "RightParen", kind |-> "value"])

NamedTuple(name, t) ==
    Ret(t.p, Some(Spanned([name |-> name, tuple |-> t.v],
                          SpanMerge(name.span, t.v.span))))

parse_named_tuple(p, name) == NamedTuple(name, Call("parse_tuple", p, None))

\* parse_collection(end, ..) is parse_collection_comma_aware(end, ..).0
parse_object(p) ==
    Call("parse_collection_comma_aware", eat(p), [end |-> "RightBrace", kind |-> "pair"])

\* The parse_item closure of parse_tuple.
ValueItem(e) == IF IsSome(e.r) THEN Ok(e.p, Get(e.r)) ELSE Err(e.p, "value", None)

\* The parse_item closure of parse_object, after the key and the colon.
PairValue(key, value) ==
    IF IsSome(value.r)
    THEN Ok(value.p, Spanned([key |-> key, value |-> Get(value.r)],
                             SpanMerge(key.span, Get(value.r).span)))
    ELSE Err(value.p, "value", None)

\* The closure of parse_object that eats the token it finds for the colon
PairAfterKeyEating(key, behind_key, p1) ==
    IF peekk(p1) # "Colon" THEN Err(eat(p1), "colon", Some(behind_key))
    ELSE PairValue(key, Call("parse_expr",
                             pdeco(skip_whitespace(eat(p1)), key.span, "ObjectKey"),
                             None))

\* The parse_item closure of parse_object, after the key.
PairAfterKey(key, behind_key, p1) ==
    IF peekk(p1) # "Colon" THEN Err(p1, "colon", Some(behind_key))
    ELSE PairValue(key, Call("parse_expr",
                             pdeco(skip_whitespace(eat(p1)), key.span, "ObjectKey"),
                             None))

PairItem(key) ==
    IF IsSome(key.r)
    THEN PairAfterKey(Get(key.r), pos(key.p), skip_whitespace(key.p))
    ELSE Err(key.p, "key", None)

\* A keyword argument that falls back to the identifier without a value
KeyArgFallingBack(ident, value) ==
    IF IsSome(value.r)
    THEN Ok(value.p, Spanned([t |-> "Key", e |-> [key |-> ident, value |-> Get(value.r)]],
                             SpanMerge(ident.span, Get(value.r).span)))
    ELSE Ok(value.p, Spanned([t |-> "Pos", e |-> ident.v], ident.span))

\* The parse_item closure of parse_func_args: a keyword argument, after the
\* equals sign.
KeyArg(ident, value) ==
    IF IsSome(value.r)
    THEN Ok(value.p, Spanned([t |-> "Key", e |-> [key |-> ident, value |-> Get(value.r)]],
                             SpanMerge(ident.span, Get(value.r).span)))
    ELSE Err(value.p, "value", None)

NamedTupleArg(tuple) ==
    Ok(tuple.p, Spanned([t |-> "Pos", e |-> NamedTupleExpr(Get(tuple.r)).v],
                        Get(tuple.r).span))

\* ... after an identifier not followed by a parenthesis, whitespace skipped
IdentArg(ident, p1) ==
    IF peekk(p1) = "Equals"
    THEN KeyArg(ident, Call("parse_expr",
                            pdeco(skip_whitespace(eat(p1)), ident.span, "ArgumentKey"),
                            None))
    ELSE Ok(p1, Spanned([t |-> "Pos", e |-> ident.v], ident.span))

PosArg(arg) ==
    IF IsSome(arg.r)
    THEN Ok(arg.p, Spanned([t |-> "Pos", e |-> Get(arg.r).v], Get(arg.r).span))
    ELSE Err(arg.p, "argument", None)

ArgItem(id) ==
    IF IsSome(id.r)
    THEN IF peekk(id.p) = "LeftParen"
         THEN NamedTupleArg(Call("parse_named_tuple", id.p, Get(id.r)))
         ELSE IdentArg(Get(id.r), skip_whitespace(id.p))
    ELSE PosArg(Call("parse_expr", id.p, None))

\* The parse_item closures: of parse_func_args ("argument"), of parse_tuple
\* ("value") and of parse_object ("pair").
parse_item(p, kind) ==
    CASE kind = "value" -> ValueItem(Call("parse_expr", p, None))
      [] kind = "pair" -> PairItem(parse_ident(p))
      [] kind = "argument" -> ArgItem(parse_ident(p))

\* Ok(item) that leaves the comma behind the item to the next call
ItemOkKeepingComma(p2, item, end, can_be_coerced) ==
    LET next == peekk(p2)
    IN  IF next = "Comma"
        THEN Yield(p2, "item", Some(item), FALSE)
        ELSE IF next # "None" /\ next # end
        THEN Yield(expected_at(p2, "comma", item.span.end), "item", Some(item), FALSE)
        ELSE Yield(p2, "item", Some(item), can_be_coerced)

\* Ok(item) that keeps the flag when a token other than the comma follows
ItemOkKeepingFlag(p2, item, end, can_be_coerced) ==
    LET next == peekk(p2)
    IN  IF next = "Comma"
        THEN Yield(eat(p2), "item", Some(item), FALSE)
        ELSE IF next # "None" /\ next # end
        THEN Yield(expected_at(p2, "comma", item.span.end), "item", Some(item),
                   can_be_coerced)
        ELSE Yield(p2, "item", Some(item), can_be_coerced)

\* Ok(item): expect a comma behind the item.
ItemOk(p2, item, end, can_be_coerced) ==
    LET next == peekk(p2)
    IN  IF next = "Comma"
        THEN Yield(eat(p2), "item", Some(item), FALSE)
        ELSE IF next # "None" /\ next # end
        THEN Yield(expected_at(p2, "comma", item.span.end), "item", Some(item), FALSE)
        ELSE Yield(p2, "item", Some(item), can_be_coerced)

\* Err((expected, None)): the token is eaten unless it is the end token.
ItemErrFound(p3, expected, token, can_be_coerced) ==
    Yield(expected_found_or_at(p3, expected, token, pos(p3)),
          "skip", None, can_be_coerced)

\* Err(..) that leaves the token of the first problem to the next call
ItemErrEatingLate(q, item, end, can_be_coerced) ==
    IF IsSome(item.at)
    THEN Yield(expected_at(q, item.expected, Get(item.at)), "skip", None, can_be_coerced)
    ELSE ItemErrFound(IF peekk(q) # end /\ q.feedback.problems # <<>> THEN eat(q) ELSE q,
                      item.expected, Buffered(q), can_be_coerced)

ItemErr(q, item, end, can_be_coerced) ==
    IF IsSome(item.at)
    THEN Yield(expected_at(q, item.expected, Get(item.at)), "skip", None, can_be_coerced)
    ELSE ItemErrFound(IF peekk(q) # end THEN eat(q) ELSE q,
                      item.expected, Buffered(q), can_be_coerced)

ItemParsed(item, end, can_be_coerced) ==
    IF item.ok THEN ItemOk(skip_whitespace(item.p), item.item, end, can_be_coerced)
    ELSE ItemErr(Fill(item.p), item, end, can_be_coerced)

\* The collection ends: at the end token, or without it.
CollectionEnd(p2, peeked, end, can_be_coerced) ==
    IF peeked = end THEN Yield(p2, "stop", None, can_be_coerced)
    ELSE Yield(expected_at(p2, Name(Tok(end, <<>>)), pos(p2)),
               "stop", None, can_be_coerced)

\* One call of the from_fn closure, whitespace skipped.
NextAt(p1, end, kind, can_be_coerced) ==
    IF peekk(p1) = end \/ peekk(p1) = "None"
    THEN CollectionEnd(eat(p1), peekk(p1), end, can_be_coerced)
    ELSE ItemParsed(Call("parse_item", p1, kind), end, can_be_coerced)

collection_next(p, end, kind, can_be_coerced) ==
    NextAt(skip_whitespace(p), end, kind, can_be_coerced)

\* from_fn(..).filter_map(|x| x).collect()
Collected(y, end, kind, items) ==
    IF y.yield = "stop"
    THEN [p |-> y.p, items |-> items, can_be_coerced |-> y.can_be_coerced]
    ELSE Call("collect", y.p,
              [end |-> end, kind |-> kind,
               items |-> IF y.yield = "item" THEN Append(items, Get(y.item)) ELSE items,
               can_be_coerced |-> y.can_be_coerced])

collect(p, end, kind, items, can_be_coerced) ==
    Collected(collection_next(p, end, kind, can_be_coerced), end, kind, items)

CollectionOf(from, c) ==
    [p |-> c.p,
     v |-> Spanned([items |-> c.items], SpanOf(from, pos(c.p))),
     can_be_coerced |-> c.can_be_coerced]

parse_collection_comma_aware(p, end, kind) ==
    CollectionOf(pos(p), Call("collect", p, [end |-> end, kind |-> kind,
                                             items |-> <<>>, can_be_coerced |-> TRUE]))

Call(method, p, a) ==
    CASE method = "parse_expr" -> parse_expr(p)
      [] method = "parse_term" -> parse_term(p)
      [] method = "parse_binop" -> parse_binop(p, a.o1, a.operand_name)
      [] method = "parse_factor" -> parse_factor(p)
      [] method = "parse_value" -> parse_value(p)
      [] method = "parse_tuple" -> parse_tuple(p)
      [] method = "parse_named_tuple" -> parse_named_tuple(p, a)
      [] method = "parse_object" -> parse_object(p)
      [] method = "parse_item" -> parse_item(p, a)
      [] method = "collect" -> collect(p, a.end, a.kind, a.items, a.can_be_coerced)
      [] method = "parse_collection_comma_aware" ->
            parse_collection_comma_aware(p, a.end, a.kind)

----------------------------------------------------------------------------
(* Escaping utilities                                                      *)

\* unescape_string that drops the backslash of an escape it does not know
RECURSIVE UnescapeStringStrict(_)
UnescapeStringStrict(string) ==
    IF Len(string) = 0 THEN <<>>
    ELSE IF string[1] = "\\"
         THEN IF Len(string) = 1 THEN <<"\\">>
              ELSE LET c == string[2]
                       rest == UnescapeStringStrict(SubSeq(string, 3, Len(string)))
                   IN  CASE c = "\\" -> <<"\\">> \o rest
                         [] c = "\"" -> <<"\"">> \o rest
                         [] c = "n" -> <<"\n">> \o rest
                         [] c = "t" -> <<"\t">> \o rest
                         [] OTHER -> <<c>> \o rest
         ELSE <<string[1]>> \o UnescapeStringStrict(Tail(string))

unescape_string(string) ==
    IF Len(string) = 0 THEN <<>>
    ELSE IF string[1] = "\\"
         THEN IF Len(string) = 1 THEN <<"\\">>
              ELSE LET c == string[2]
                       rest == unescape_string(SubSeq(string, 3, Len(string)))
                   IN  CASE c = "\\" -> <<"\\">> \o rest
                         [] c = "\"" -> <<"\"">> \o rest
                         [] c = "n" -> <<"\n">> \o rest
                         [] c = "t" -> <<"\t">> \o rest
                         [] OTHER -> <<"\\", c>> \o rest
         ELSE <<string[1]>> \o unescape_string(Tail(string))

----------------------------------------------------------------------------
(* FuncParser: header and dispatch                                         *)

\* FuncArgs::from_iter: positional and keyword arguments, in order
RECURSIVE SelectArgs(_, _)
SelectArgs(items, t) ==
    IF Len(items) = 0 THEN <<>>
    ELSE (IF items[1].v.t = t THEN <<Spanned(items[1].v.e, items[1].span)>> ELSE <<>>)
         \o SelectArgs(Tail(items), t)

FuncArgsFrom(items) == [pos |-> SelectArgs(items, "Pos"), key |-> SelectArgs(items, "Key")]
FuncArgsNew == FuncArgsFrom(<<>>)

ArgsOf(c) == [p |-> c.p, args |-> FuncArgsFrom(c.v.v.items)]

parse_func_args(p) == ArgsOf(parse_collection_comma_aware(p, "None", "argument"))

FuncHeader(name, args) == [name |-> name, args |-> args]

HeaderWithArgs(name, a) == Ret(a.p, Some(FuncHeader(name, a.args)))

\* parse_func_header that fails on a token other than the colon
HeaderAfterNameStrict(name, p1) ==
    CASE peekk(p1) = "Colon" -> HeaderWithArgs(name, parse_func_args(eat(p1)))
      [] peekk(p1) = "None" -> Ret(eat(p1), Some(FuncHeader(name, FuncArgsNew)))
      [] OTHER -> Ret(expected_at(eat(p1), "colon", name.span.end), None)

\* parse_func_header after the name, whitespace skipped: self.eat() is matched
HeaderAfterName(name, p1) ==
    CASE peekk(p1) = "Colon" -> HeaderWithArgs(name, parse_func_args(eat(p1)))
      [] peekk(p1) = "None" -> Ret(eat(p1), Some(FuncHeader(name, FuncArgsNew)))
      [] OTHER -> Ret(expected_at(eat(p1), "colon", name.span.end),
                      Some(FuncHeader(name, FuncArgsNew)))

HeaderName(from, name) ==
    IF IsSome(name.r) THEN HeaderAfterName(Get(name.r), skip_whitespace(name.p))
    ELSE Ret(expected_found_or_at(eat(name.p), "identifier", Buffered(name.p), from),
             None)

\* parse_func_header that takes the start position behind the whitespace
ParseFuncHeaderFromName(p) ==
    HeaderName(pos(skip_whitespace(p)), parse_ident(skip_whitespace(p)))

parse_func_header(p) == HeaderName(pos(p), parse_ident(skip_whitespace(p)))

\* The functions registered in ctx.scope.
Scope == {<<"f">>}

Pass(output, fb) == [output |-> output, feedback |-> fb]

\* The default header of an unparsable function.
DefaultHeader == [name |-> Spanned(Ident(<<>>), SpanZERO), args |-> FuncArgsNew]

RECURSIVE parse(_, _)

BodyParsed(hd, b) == Pass([header |-> hd, body |-> Some(b.output)], b.feedback)

\* A parser of the scope (the fallback parser included): it keeps the header
\* and parses the body, if there is one, from the body's start position.
CallParser(hd, body) ==
    IF IsSome(body)
    THEN BodyParsed(hd, parse(Get(body).span.start, Get(body).v))
    ELSE Pass([header |-> hd, body |-> None], FeedbackNew)

\* self.feedback.extend(parsed.feedback); Pass::new(Node::Model(..), ..)
ModelOf(fb, parsed) ==
    Pass([t |-> "Model", model |-> parsed.output], Extend(fb, parsed.feedback))

\* The lookup that raises no problem for an unknown name
LookupWithoutError(fb, name) ==
    IF name.v.name \in Scope
    THEN Deco(fb, name.span, "ValidFuncName")
    ELSE Deco(fb, name.span, "InvalidFuncName")

\* The lookup of the name in the scope and its decoration.
Lookup(fb, name) ==
    IF name.v.name \in Scope
    THEN Deco(fb, name.span, "ValidFuncName")
    ELSE Deco(Error(fb, name.span, <<"unknown function">>), name.span, "InvalidFuncName")

\* FuncParser::parse that gives no body to the parser of an unparsable header
DispatchDroppingBody(h, body) ==
    IF IsSome(h.r)
    THEN ModelOf(Lookup(h.p.feedback, Get(h.r).name), CallParser(Get(h.r), body))
    ELSE ModelOf(h.p.feedback, CallParser(DefaultHeader, None))

\* FuncParser::parse after parse_func_header
Dispatch(h, body) ==
    IF IsSome(h.r)
    THEN ModelOf(Lookup(h.p.feedback, Get(h.r).name), CallParser(Get(h.r), body))
    ELSE ModelOf(h.p.feedback, CallParser(DefaultHeader, body))

\* FuncParser::new(header, body, ctx).parse()
FuncParserParse(hd, body) == Dispatch(parse_func_header(FuncParserNew(hd)), body)

----------------------------------------------------------------------------
(* Escaping of raw blocks                                                  *)

\* The characters are one-character strings; the backtick is written out.
Backtick == "<backtick>"

is_newline_char(c) == c \in {"\n", "\r", "\f"}

\* unescape_raw, with the lines finished so far and the line being built
RECURSIVE UnescapeRawFrom(_, _, _)
UnescapeRawFrom(raw, lines, s) ==
    IF Len(raw) = 0 THEN Append(lines, s)
    ELSE LET c == raw[1]
             rest == Tail(raw)
         IN  IF c = "\\"
             THEN IF Len(rest) = 0 THEN UnescapeRawFrom(rest, lines, Append(s, "\\"))
                  ELSE IF rest[1] = Backtick
                  THEN UnescapeRawFrom(Tail(rest), lines, Append(s, Backtick))
                  ELSE UnescapeRawFrom(Tail(rest), lines, s \o <<"\\", rest[1]>>)
             ELSE IF is_newline_char(c)
             THEN IF c = "\r" /\ Len(rest) > 0 /\ rest[1] = "\n"
                  THEN UnescapeRawFrom(Tail(rest), Append(lines, s), <<>>)
                  ELSE UnescapeRawFrom(rest, Append(lines, s), <<>>)
             ELSE UnescapeRawFrom(rest, lines, Append(s, c))

unescape_raw(raw) == UnescapeRawFrom(raw, <<>>, <<>>)

----------------------------------------------------------------------------
(* The body parser                                                         *)

\* Token::Space(newlines): the number of newlines of a whitespace token
RECURSIVE Newlines(_)
Newlines(x) ==
    IF Len(x) = 0 THEN 0
    ELSE (IF x[1] = "\n" THEN 1 ELSE 0) + Newlines(Tail(x))

\* A paragraph break for any newline
SpaceNodeOfAnyNewline(newlines) ==
    IF newlines >= 1 THEN [t |-> "Parbreak"] ELSE [t |-> "Space"]

\* The node of a whitespace token.
SpaceNode(newlines) == IF newlines >= 2 THEN [t |-> "Parbreak"] ELSE [t |-> "Space"]

\* The body of a Function token: its tokens, spanned in the coordinates of
\* the function (the opening bracket is at 0).
BodyOf(t) ==
    IF IsSome(t.body)
    THEN LET from == 1 + TotalWidth(t.header, Len(t.header)) + 2
         IN  Some(Spanned(Get(t.body),
                          SpanOf(from, from + TotalWidth(Get(t.body), Len(Get(t.body))))))
    ELSE None

\* The Function arm with feedback.extend in place of feedback.extend_offset
FunctionParsedUntranslated(fb, token, parsed) ==
    Pass(Some(parsed.output),
         IF ~token.v.terminated
         THEN Error(Extend(fb, parsed.feedback),
                    SpanAt(token.span.end), <<"expected closing bracket">>)
         ELSE Extend(fb, parsed.feedback))

\* The Token::Function arm raising the problem of the bracket before it
\* takes over the feedback of the function parser
FunctionParsedBracketFirst(fb, token, parsed) ==
    Pass(Some(parsed.output),
         IF ~token.v.terminated
         THEN ExtendOffset(Error(fb, SpanAt(token.span.end), <<"expected closing bracket">>),
                           token.span.start, parsed.feedback)
         ELSE ExtendOffset(fb, token.span.start, parsed.feedback))

\* The Token::Function arm of parse, after the function parser returned.
FunctionParsed(fb, token, parsed) ==
    Pass(Some(parsed.output),
         IF ~token.v.terminated
         THEN Error(ExtendOffset(fb, token.span.start, parsed.feedback),
                    SpanAt(token.span.end), <<"expected closing bracket">>)
         ELSE ExtendOffset(fb, token.span.start, parsed.feedback))

FunctionArm(fb, token) ==
    FunctionParsed(fb, token, FuncParserParse(token.v.header, BodyOf(token.v)))

\* The Token::Raw arm of parse.
RawArm(fb, token) ==
    Pass(Some([t |-> "Raw", lines |-> unescape_raw(token.v.x)]),
         IF ~token.v.terminated
         THEN Error(fb, SpanAt(token.span.end), <<"expected backtick">>)
         ELSE fb)

\* The match of the loop without the arm of Token::Text
MatchWithoutText(fb, token) ==
    CASE token.v.k \in {"LineComment", "BlockComment"} -> Pass(None, fb)
      [] token.v.k = "Space" -> Pass(Some(SpaceNode(Newlines(token.v.x))), fb)
      [] token.v.k = "Function" -> FunctionArm(fb, token)
      [] token.v.k = "Star" -> Pass(Some([t |-> "ToggleBolder"]), fb)
      [] token.v.k = "Underscore" -> Pass(Some([t |-> "ToggleItalic"]), fb)
      [] token.v.k = "Backslash" -> Pass(Some([t |-> "Linebreak"]), fb)
      [] token.v.k = "Raw" -> RawArm(fb, token)
      [] OTHER -> Pass(None, Error(fb, token.span, <<"unexpected", Name(token.v)>>))

\* The match of the loop of parse: the node of a token (None where the loop
\* continues without one) and the feedback afterwards.
Match(fb, token) ==
    CASE token.v.k \in {"LineComment", "BlockComment"} -> Pass(None, fb)
      [] token.v.k = "Space" -> Pass(Some(SpaceNode(Newlines(token.v.x))), fb)
      [] token.v.k = "Function" -> FunctionArm(fb, token)
      [] token.v.k = "Star" -> Pass(Some([t |-> "ToggleBolder"]), fb)
      [] token.v.k = "Underscore" -> Pass(Some([t |-> "ToggleItalic"]), fb)
      [] token.v.k = "Backslash" -> Pass(Some([t |-> "Linebreak"]), fb)
      [] token.v.k = "Raw" -> RawArm(fb, token)
      [] token.v.k = "Text" -> Pass(Some([t |-> "Text", text |-> token.v.x]), fb)
      [] OTHER -> Pass(None, Error(fb, token.span, <<"unexpected", Name(token.v)>>))

\* model.add that puts the node in front of the nodes
AddInFront(nodes, token, m) ==
    Pass(IF IsSome(m.output) THEN <<Spanned(Get(m.output), token.span)>> \o nodes
         ELSE nodes,
         m.feedback)

\* model.add(Spanned { v: node, span: token.span }), unless the loop continued
Add(nodes, token, m) ==
    Pass(IF IsSome(m.output) THEN Append(nodes, Spanned(Get(m.output), token.span))
         ELSE nodes,
         m.feedback)

\* One iteration of the loop of parse, on the Pass built so far.
Step(pass, token) == Add(pass.output, token, Match(pass.feedback, token))

RECURSIVE ParseLoop(_, _, _)
ParseLoop(tokens, i, pass) ==
    IF i > Len(tokens) THEN pass
    ELSE ParseLoop(tokens, i + 1, Step(pass, tokens[i]))

parse(from, ts) == ParseLoop(Tokens(from, ts), 1, Pass(<<>>, FeedbackNew))

----------------------------------------------------------------------------
(* Bounds and inputs                                                       *)

MaxTokens == 3        \* body tokens of a document
MaxHeaderLen == 3     \* tokens of a function header
MaxExprLen == 5       \* tokens of an expression or collection
MaxStrLen == 4        \* characters of a string or raw text
MaxCollectLen == 4    \* tokens of a collection

StartPositions == {0, 2}

SeqsUpTo(S, n) == UNION {[1..k -> S] : k \in 0..n}

Num == Tok("ExprNumber", <<"1">>)
IdF == Tok("ExprIdent", <<"f">>)
IdX == Tok("ExprIdent", <<"x">>)
Spc == Tok("Space", <<" ">>)
Punct(k) == Tok(k, <<>>)

\* Body tokens other than functions, by the arm of the match they take.
CommentTokens == {Tok("LineComment", <<>>), Tok("BlockComment", <<"\n", "\n">>)}
SpaceTokens == {Spc, Tok("Space", <<"\n">>), Tok("Space", <<"\n", "\n">>)}
ToggleTokens == {Punct("Star"), Punct("Underscore"), Punct("Backslash")}
RawTokens == {Tok("Raw", <<"r", "\n">>), Unterminated(Tok("Raw", <<"r">>))}
TextTokens == {Tok("Text", <<"a">>)}
OtherTokens == {Punct("StarSlash")}

\* Bodies of functions.
Bodies == {None, Some(<<>>), Some(<<Punct("StarSlash")>>),
           Some(<<Unterminated(Tok("Raw", <<"r">>))>>)}

\* The functions of the documents of Spec.
FunctionTokens ==
    { Function(<<IdF>>, None, TRUE),
      Function(<<Spc, IdX>>, Some(<<Tok("Text", <<"a">>)>>), TRUE),
      Function(<<>>, None, FALSE),
      Function(<<Num>>, Some(<<Punct("StarSlash")>>), TRUE),
      Function(<<IdF, Punct("Colon"), Punct("Hyphen")>>,
               Some(<<Function(<<IdX, Num>>, None, FALSE)>>), FALSE) }

\* The functions of the one-function documents of SpecFunc.
HeaderAlphabet == {IdF, IdX, Num, Spc, Punct("Colon"), Punct("Equals"),
                   Punct("Hyphen"), Punct("LeftParen")}

HeaderFunctionTokens ==
    { Function(hd, body, terminated) :
        hd \in SeqsUpTo(HeaderAlphabet, MaxHeaderLen),
        body \in Bodies, terminated \in BOOLEAN }

\* The inputs of SpecExpr: arithmetic over two operands, and groups.
OperatorAlphabet == {Num, Punct("Hyphen"), Punct("Plus"), Punct("Star"), Punct("Slash")}
GroupAlphabet == {Num, IdX, Punct("LeftParen"), Punct("RightParen"), Punct("Comma")}

\* Hex literals: a color, one of a wrong length, one with a wrong digit.
HexAlphabet == {Tok("ExprHex", <<"f", "0", "0">>), Tok("ExprHex", <<"f", "0">>),
                Tok("ExprHex", <<"g", "0", "0">>)}

\* The inputs of SpecCollect: arguments and tuples, and objects.
ArgumentAlphabet == {IdX, Num, Spc, Tok("BlockComment", <<>>), Punct("Equals"),
                     Punct("Comma"), Punct("LeftParen"), Punct("RightParen")}
ObjectAlphabet == {IdX, Num, Punct("Colon"), Punct("Comma"), Punct("LeftBrace"),
                   Punct("RightBrace"), Punct("Hyphen")}

\* Objects of keys and values separated by whitespace, behind their brace.
KeyAlphabet == {IdX, Spc, Punct("Colon"), Punct("RightBrace")}
Objects == {<<Punct("LeftBrace")>> \o s : s \in SeqsUpTo(KeyAlphabet, MaxCollectLen + 1)}

CollectInputs ==
    SeqsUpTo(ArgumentAlphabet, MaxCollectLen) \cup SeqsUpTo(ObjectAlphabet, MaxCollectLen)
        \cup Objects

\* The inputs of SpecEscape: strings over the escapes and the line breaks.
CharAlphabet == {"\\", "\"", "n", "t", "a", Backtick, "\n", "\r"}
StrInputs == SeqsUpTo(CharAlphabet, MaxStrLen)

ExprInputs ==
    SeqsUpTo(OperatorAlphabet, MaxExprLen) \cup SeqsUpTo(GroupAlphabet, MaxExprLen)
        \cup SeqsUpTo(HexAlphabet, MaxExprLen)

----------------------------------------------------------------------------
(* The loop of parse as a state machine: each step the tokenizer yields    *)
(* the next token of the document, or the end of the input.                *)

Init ==
    /\ start \in StartPositions
    /\ src = <<>>
    /\ model = <<>>
    /\ feedback = FeedbackNew
    /\ done = FALSE
    /\ header = <<>>
    /\ out = None

\* Tokens::pos of the body tokenizer
BodyPos == IF Len(src) = 0 THEN start ELSE src[Len(src)].span.end

\* tokens.next() yields t: one iteration of the loop
Stepped(token, pass) ==
    /\ src' = Append(src, token)
    /\ model' = pass.output
    /\ feedback' = pass.feedback

Yielded(token) == Stepped(token, Step(Pass(model, feedback), token))

Consume(t) ==
    /\ ~done
    /\ Len(src) < MaxTokens
    /\ Yielded(Spanned(t, SpanOf(BodyPos, BodyPos + Width(t))))
    /\ UNCHANGED <<start, done>>

Comment == \E t \in CommentTokens : Consume(t) /\ UNCHANGED <<header, out>>
Space == \E t \in SpaceTokens : Consume(t) /\ UNCHANGED <<header, out>>
Toggle == \E t \in ToggleTokens : Consume(t) /\ UNCHANGED <<header, out>>
Raw == \E t \in RawTokens : Consume(t) /\ UNCHANGED <<header, out>>
Text == \E t \in TextTokens : Consume(t) /\ UNCHANGED <<header, out>>
Other == \E t \in OtherTokens : Consume(t) /\ UNCHANGED <<header, out>>

\* A Function token; header and out keep what the function parser was given
\* and what it returned.
FunctionOf(S) ==
    \E t \in S :
        /\ Consume(t)
        /\ header' = t.header
        /\ out' = Some(FuncParserParse(t.header, BodyOf(t)))

FunctionToken == FunctionOf(FunctionTokens)

\* tokens.next() is None: Pass::new(model, feedback) is returned
Return ==
    /\ ~done
    /\ done' = TRUE
    /\ UNCHANGED <<start, src, model, feedback, header, out>>

Next ==
    \/ Comment
    \/ Space
    \/ FunctionToken
    \/ Toggle
    \/ Raw
    \/ Text
    \/ Other
    \/ Return

Spec == Init /\ [][Next]_vars

\* Documents of one function, over every header of the alphabet.
OneFunction == src = <<>> /\ FunctionOf(HeaderFunctionTokens)

ReturnFunc == src # <<>> /\ Return

NextFunc ==
    \/ OneFunction
    \/ ReturnFunc

SpecFunc == Init /\ [][NextFunc]_vars

----------------------------------------------------------------------------
(* The methods of FuncParser, each applied to a parser over the tokens of  *)
(* header; out keeps the method and what it returned.                      *)

InitExpr ==
    /\ start = 0
    /\ src = <<>>
    /\ model = <<>>
    /\ feedback = FeedbackNew
    /\ done = FALSE
    /\ header \in ExprInputs
    /\ out = None

Applied(method, r) ==
    /\ out' = Some([method |-> method, r |-> r])
    /\ UNCHANGED <<start, src, model, feedback, done, header>>

ParseExpr ==
    /\ out = None
    /\ Applied("parse_expr", parse_expr(FuncParserNew(header)))

ParseTerm ==
    /\ out = None
    /\ Applied("parse_term", parse_term(FuncParserNew(header)))

ParseValue ==
    /\ out = None
    /\ Applied("parse_value", parse_value(FuncParserNew(header)))

\* parse_value calls parse_tuple with the opening parenthesis peeked
ParseTuple ==
    /\ out = None
    /\ peekk(FuncParserNew(header)) = "LeftParen"
    /\ Applied("parse_tuple", parse_tuple(Fill(FuncParserNew(header))))

ParseFuncArgs ==
    /\ out = None
    /\ Applied("parse_func_args", parse_func_args(FuncParserNew(header)))

NextExpr ==
    \/ ParseExpr
    \/ ParseTerm
    \/ ParseValue
    \/ ParseTuple
    \/ ParseFuncArgs

SpecExpr == InitExpr /\ [][NextExpr]_vars

----------------------------------------------------------------------------
(* The escaping utilities, each applied to the characters of header; out   *)
(* keeps the function and what it returned.                                *)

InitEscape ==
    /\ start = 0
    /\ src = <<>>
    /\ model = <<>>
    /\ feedback = FeedbackNew
    /\ done = FALSE
    /\ header \in StrInputs
    /\ out = None

UnescapeString ==
    /\ out = None
    /\ Applied("unescape_string", unescape_string(header))

UnescapeRaw ==
    /\ out = None
    /\ Applied("unescape_raw", unescape_raw(header))

NextEscape ==
    \/ UnescapeString
    \/ UnescapeRaw

SpecEscape == InitEscape /\ [][NextEscape]_vars

----------------------------------------------------------------------------
(* The loop of parse_collection_comma_aware as a state machine: out keeps  *)
(* the parser, the end token and the item grammar of the collection, the   *)
(* items collected and the flag; each step is one call of the closure      *)
(* handed to from_fn, until it returns None.                               *)

InitCollect ==
    /\ start = 0
    /\ src = <<>>
    /\ model = <<>>
    /\ feedback = FeedbackNew
    /\ done = FALSE
    /\ header = <<>>
    /\ out = None

\* The tokens of the header the parser is constructed over.
Header ==
    /\ out = None
    /\ header = <<>>
    /\ header' \in CollectInputs \ {<<>>}
    /\ UNCHANGED <<start, src, model, feedback, done, out>>

Collecting(p, end, kind, items, can_be_coerced, stopped) ==
    [p |-> p, end |-> end, kind |-> kind, items |-> items,
     can_be_coerced |-> can_be_coerced, stopped |-> stopped]

StartCollection(p, end, kind) ==
    /\ out' = Some(Collecting(p, end, kind, <<>>, TRUE, FALSE))
    /\ UNCHANGED <<start, src, model, feedback, done, header>>

\* parse_func_args on the tokens of header
StartArguments ==
    /\ out = None
    /\ StartCollection(FuncParserNew(header), "None", "argument")

\* parse_tuple with the opening parenthesis peeked
StartTuple ==
    /\ out = None
    /\ peekk(FuncParserNew(header)) = "LeftParen"
    /\ StartCollection(eat(Fill(FuncParserNew(header))), "RightParen", "value")

\* parse_object with the opening brace peeked
StartObject ==
    /\ out = None
    /\ peekk(FuncParserNew(header)) = "LeftBrace"
    /\ StartCollection(eat(Fill(FuncParserNew(header))), "RightBrace", "pair")

Continued(c, y) ==
    Collecting(y.p, c.end, c.kind,
               IF y.yield = "item" THEN Append(c.items, Get(y.item)) ELSE c.items,
               y.can_be_coerced, y.yield = "stop")

\* The loop is running: the closure has not returned None.
Running == IsSome(out) /\ ~Get(out).stopped

\* One call of the closure: an item, a skipped token, or the end.
CollectionNext ==
    /\ Running
    /\ out' = Some(Continued(Get(out),
                             collection_next(Get(out).p, Get(out).end, Get(out).kind,
                                             Get(out).can_be_coerced)))
    /\ UNCHANGED <<start, src, model, feedback, done, header>>

NextCollect ==
    \/ Header
    \/ StartArguments
    \/ StartTuple
    \/ StartObject
    \/ CollectionNext

\* WF_vars(CollectionNext), with ENABLED <<CollectionNext>>_vars written as
\* the guard of the action: a call of the closure always changes out (it
\* adds an item or a problem, or it stops the loop).
LoopFairness == []<>~Running \/ []<><<CollectionNext>>_vars

\* A method that parses a collection is called, and the loop it runs is
\* not abandoned: from_fn(..).collect() calls the closure until it returns
\* None.
SpecCollect ==
    /\ InitCollect
    /\ [][NextCollect]_vars
    /\ WF_vars(StartArguments \/ StartTuple \/ StartObject)
    /\ LoopFairness

----------------------------------------------------------------------------
(* Properties of the body parser (Spec, SpecFunc)                          *)

IsFunctionToken(t) == t.v.k = "Function"
IsModelNode(n) == n.v.t = "Model"
FunctionsOf(ts) == SelectSeq(ts, IsFunctionToken)
ModelsOf(nodes) == SelectSeq(nodes, IsModelNode)

\* The header the function parser reads from the header tokens of a token.
HeaderOf(t) == parse_func_header(FuncParserNew(t.v.header)).r

\* What the sub-parser makes of the body of a token.
BodyModelOf(t) ==
    IF IsSome(t.v.body)
    THEN Some(parse(Get(BodyOf(t.v)).span.start, Get(t.v.body)).output)
    ELSE None

\* node is the Model node of the Function token with the parsed header h:
\* it has the span of the token, the header that was parsed (the empty
\* default header if none was) and the model of the body.
ModelWith(node, token, h) ==
    /\ node.span = token.span
    /\ node.v.model.header = (IF IsSome(h) THEN Get(h) ELSE DefaultHeader)
    /\ node.v.model.body = BodyModelOf(token)

ModelFor(node, token) == ModelWith(node, token, HeaderOf(token))

ModelsFor(nodes, tokens) ==
    /\ Len(nodes) = Len(tokens)
    /\ \A i \in 1..Len(tokens) : ModelFor(nodes[i], tokens[i])

\* C1: every Function token the tokenizer has yielded has exactly one Model
\* node in the model, in order and with the span of the token, whether its
\* header parsed to a registered name, to an unknown name or not at all; the
\* node of an unparsable header has the empty name and no arguments and
\* still holds the model of the body.
C1_OneModelPerFunction == ModelsFor(ModelsOf(model), FunctionsOf(src))

\* A returned document whose model holds a function of the default header
\* with a body, behind another node.
C1_Witness ==
    /\ done
    /\ \E i \in 2..Len(model) :
           /\ IsModelNode(model[i])
           /\ model[i].v.model.header = DefaultHeader
           /\ IsSome(model[i].v.model.body)
           /\ Len(FunctionsOf(src)) = 1

IsNameDeco(d) == d.v \in {"ValidFuncName", "InvalidFuncName"}
IsUnknownFunction(q) == q.v = <<"unknown function">>

NameDecos(fb) == SelectSeq(fb.decos, IsNameDeco)
UnknownFunctions(fb) == SelectSeq(fb.problems, IsUnknownFunction)

\* The function-name feedback of a header that parsed with the name.
NameFeedback(fb, name) ==
    IF name.v.name \in Scope
    THEN /\ NameDecos(fb) = <<Spanned("ValidFuncName", name.span)>>
         /\ UnknownFunctions(fb) = <<>>
    ELSE /\ NameDecos(fb) = <<Spanned("InvalidFuncName", name.span)>>
         /\ UnknownFunctions(fb) = <<Spanned(<<"unknown function">>, name.span)>>

\* C2: the feedback of FuncParser::parse holds exactly one function-name
\* decoration, over the span of the name, when the header parsed:
\* ValidFuncName and no "unknown function" problem for a registered name,
\* InvalidFuncName and exactly one "unknown function" problem over the span
\* of the name otherwise; it holds neither when the header did not parse.
C2_FuncNameFeedback ==
    IsSome(out) =>
        IF IsSome(parse_func_header(FuncParserNew(header)).r)
        THEN NameFeedback(Get(out).feedback,
                          Get(parse_func_header(FuncParserNew(header)).r).name)
        ELSE /\ NameDecos(Get(out).feedback) = <<>>
             /\ UnknownFunctions(Get(out).feedback) = <<>>

\* An unknown name behind whitespace, with arguments: the header "[ x:1]".
C2_Witness ==
    /\ IsSome(out)
    /\ header = <<Spc, IdX, Punct("Colon")>>
    /\ UnknownFunctions(Get(out).feedback) =
           <<Spanned(<<"unknown function">>, SpanOf(2, 3))>>

Translated(items, delta) ==
    [i \in 1..Len(items) |->
        Spanned(items[i].v, SpanOf(items[i].span.start + delta,
                                   items[i].span.end + delta))]

\* The problems the loop of parse raises itself on a token.
LoopProblems(token) ==
    CASE token.v.k \in {"Function", "Raw"} ->
            IF token.v.terminated THEN <<>>
            ELSE <<Spanned(IF token.v.k = "Raw" THEN <<"expected backtick">>
                           ELSE <<"expected closing bracket">>,
                           SpanAt(token.span.end))>>
      [] token.v.k \in {"LineComment", "BlockComment", "Space", "Star",
                        "Underscore", "Backslash", "Text"} -> <<>>
      [] OTHER -> <<Spanned(<<"unexpected", Name(token.v)>>, token.span)>>

\* The feedback of the function parser on a token (none for other tokens).
FuncFeedback(token, parsed) ==
    IF token.v.k = "Function" THEN Get(parsed).feedback ELSE FeedbackNew

FeedbackGrows(token, fb) ==
    /\ feedback'.problems = feedback.problems
                            \o Translated(fb.problems, token.span.start)
                            \o LoopProblems(token)
    /\ feedback'.decos = feedback.decos \o Translated(fb.decos, token.span.start)

\* C8: an iteration of the loop appends to the feedback of parse the
\* problems and the decorations of the function parser, in their order and
\* with their spans translated by the start of the Function token, and
\* behind them the problems of the loop itself ("unexpected ..", "expected
\* backtick", "expected closing bracket") with the document span of the
\* token, not translated.
C8_FeedbackTranslated ==
    [][src' # src =>
          FeedbackGrows(src'[Len(src')], FuncFeedback(src'[Len(src')], out'))]_vars

\* A function that starts behind other tokens, whose parser raised a
\* problem and a decoration, and that is not terminated.
C8_Witness ==
    /\ Len(src) > 1
    /\ src[Len(src)].v.k = "Function"
    /\ ~src[Len(src)].v.terminated
    /\ src[Len(src)].span.start > start
    /\ Get(out).feedback.problems # <<>>
    /\ Get(out).feedback.decos # <<>>
    /\ Len(feedback.problems) > Len(Get(out).feedback.problems) + 1

\* C9: every problem of the feedback of parse has a span between the start
\* position and the end of the source.
C9_SpansInBounds ==
    \A i \in 1..Len(feedback.problems) :
        /\ start <= feedback.problems[i].span.start
        /\ feedback.problems[i].span.start <= feedback.problems[i].span.end
        /\ feedback.problems[i].span.end <= BodyPos

\* An unterminated function with arguments and a body, at a start position
\* other than 0, with a problem at the start of the header and one at the
\* end of the source.
C9_Witness ==
    /\ done
    /\ start > 0
    /\ Len(header) = MaxHeaderLen
    /\ \E i \in 1..Len(feedback.problems) :
           feedback.problems[i].span = SpanAt(BodyPos)
    /\ \E i \in 1..Len(feedback.problems) :
           feedback.problems[i].span.start = start + HeaderStart
    /\ IsSome(src[1].v.body)

IsSpaceToken(t) == t.v.k = "Space"
IsCommentToken(t) == t.v.k \in {"LineComment", "BlockComment"}
IsSpaceNode(n) == n.v.t \in {"Space", "Parbreak"}

SpacesOf(ts) == SelectSeq(ts, IsSpaceToken)
SpaceNodesOf(nodes) == SelectSeq(nodes, IsSpaceNode)

NodesFor(nodes, tokens) ==
    /\ Len(nodes) = Len(tokens)
    /\ \A i \in 1..Len(tokens) :
           /\ nodes[i].span = tokens[i].span
           /\ nodes[i].v.t = "Parbreak" <=> Newlines(tokens[i].v.x) >= 2

\* C10: the whitespace tokens have one node each, in order and with the
\* span of the token: Parbreak for two newlines or more, Space otherwise;
\* no node has the span of a comment token, so whitespace around a comment
\* stays two nodes.
C10_WhitespaceNodes ==
    /\ NodesFor(SpaceNodesOf(model), SpacesOf(src))
    /\ \A i \in 1..Len(src) :
           IsCommentToken(src[i]) =>
               \A j \in 1..Len(model) : model[j].span # src[i].span

\* Whitespace of one newline on both sides of a comment: two Space nodes.
C10_Witness ==
    /\ Len(src) = 3
    /\ IsCommentToken(src[2])
    /\ Newlines(src[1].v.x) = 1
    /\ Newlines(src[3].v.x) = 1
    /\ Len(model) = 2
    /\ model[1].v.t = "Space"
    /\ model[2].v.t = "Space"

----------------------------------------------------------------------------
(* Properties of the function parser's methods (SpecExpr)                  *)

Method(m) == IsSome(out) /\ Get(out).method = m
Result == Get(out).r
P0 == FuncParserNew(header)

\* The tokens the parser has consumed.
Consumed(p) == IF p.peeked = "Some" THEN p.n - 1 ELSE p.n

\* The parser has consumed all of its tokens.
Complete(p) == Consumed(p) = Len(p.tokens)

Problems(r) == r.p.feedback.problems

\* A method returned a value for the whole input without a problem.
Clean(r) == IsSome(r.r) /\ Complete(r.p) /\ Problems(r) = <<>>

Group(x) == <<Punct("LeftParen")>> \o x \o <<Punct("RightParen")>>
GroupComma(x) == <<Punct("LeftParen")>> \o x \o <<Punct("Comma"), Punct("RightParen")>>

\* The value of the header where it stands behind an opening parenthesis.
Inner == parse_value(FuncParserAt(HeaderStart + 1, header))

\* C3: for a header X that parse_value parses completely, without a
\* problem, (X) parses to the Expr of X (at its place in the group), (X,)
\* parses to a Tuple of that one item, which is not the Expr of X, and ()
\* parses to the empty Tuple.
C3_CoercionLaw ==
    Method("parse_value") =>
        /\ Clean(Result) =>
               /\ Inner.r = Some(Spanned(Get(Inner.r).v,
                                         SpanOffset(Get(Result.r).span, 1)))
               /\ Get(Inner.r).v.t = Get(Result.r).v.t
               /\ Clean(parse_value(FuncParserNew(Group(header))))
               /\ parse_value(FuncParserNew(Group(header))).r = Inner.r
               /\ Clean(parse_value(FuncParserNew(GroupComma(header))))
               /\ Get(parse_value(FuncParserNew(GroupComma(header))).r).v =
                      [t |-> "Tuple", items |-> <<Get(Inner.r)>>]
               /\ parse_value(FuncParserNew(GroupComma(header))).r # Inner.r
        /\ header = Group(<<>>) =>
               /\ Clean(Result)
               /\ Get(Result.r).v = [t |-> "Tuple", items |-> <<>>]

\* The group ((x)) was parsed to the identifier inside it.
C3_Witness ==
    /\ Method("parse_value")
    /\ header = Group(Group(<<IdX>>))
    /\ Clean(Result)
    /\ Get(Result.r) = Spanned(Ident(IdX.x), SpanOf(3, 4))

IsBinary(e) == e.v.t \in {"Add", "Sub", "Mul", "Div"}

OpOf(e) ==
    CASE e.v.t = "Add" -> Punct("Plus") [] e.v.t = "Sub" -> Punct("Hyphen")
      [] e.v.t = "Mul" -> Punct("Star") [] e.v.t = "Div" -> Punct("Slash")

\* The tokens of an arithmetic expression over numbers, left to right.
RECURSIVE Unparse(_)
Unparse(e) ==
    CASE IsBinary(e) -> Unparse(e.v.l) \o <<OpOf(e)>> \o Unparse(e.v.r)
      [] e.v.t = "Neg" -> <<Punct("Hyphen")>> \o Unparse(e.v.e)
      [] e.v.t = "Number" -> <<Tok("ExprNumber", e.v.n)>>

\* e derives from the nonterminal nt of
\*   expr := term (('+'|'-') expr)?   term := factor (('*'|'/') term)?
\*   factor := '-' value | value
RECURSIVE Derives(_, _)
Derives(e, nt) ==
    CASE e.v.t \in {"Add", "Sub"} ->
            nt = "expr" /\ Derives(e.v.l, "term") /\ Derives(e.v.r, "expr")
      [] e.v.t \in {"Mul", "Div"} ->
            nt \in {"expr", "term"} /\ Derives(e.v.l, "factor") /\ Derives(e.v.r, "term")
      [] e.v.t = "Neg" -> nt # "value" /\ Derives(e.v.e, "value")
      [] OTHER -> TRUE

\* Every binary node spans its two operands, every negation the hyphen and
\* its operand.
RECURSIVE SpansMerged(_)
SpansMerged(e) ==
    CASE IsBinary(e) ->
            /\ e.span = SpanMerge(e.v.l.span, e.v.r.span)
            /\ e.v.l.span.end < e.v.r.span.start
            /\ SpansMerged(e.v.l)
            /\ SpansMerged(e.v.r)
      [] e.v.t = "Neg" ->
            /\ e.span = SpanOf(e.v.e.span.start - 1, e.v.e.span.end)
            /\ SpansMerged(e.v.e)
      [] OTHER -> e.span.end = e.span.start + 1

IsArithmetic(hd) == \A i \in 1..Len(hd) : hd[i] \in OperatorAlphabet

\* C4: an arithmetic header that parse_expr parses completely, without a
\* problem, is parsed to the tree of the grammar expr := term (('+'|'-') expr)?,
\* term := factor (('*'|'/') term)?, factor := '-' value | value, whose tokens
\* are the header: * and / bind tighter than + and -, the unary minus binds
\* tighter than both, operators of one tier nest to the right; the span of
\* a binary node is the merge of the spans of its operands.
C4_ExpressionGrammar ==
    Method("parse_expr") /\ IsArithmetic(header) /\ Clean(Result) =>
        /\ Derives(Get(Result.r), "expr")
        /\ Unparse(Get(Result.r)) = header
        /\ SpansMerged(Get(Result.r))
        /\ Get(Result.r).span = SpanOf(HeaderStart, HeaderStart + Len(header))

\* 1 - 1 - 1 was parsed to Sub(1, Sub(1, 1)), the inner node spanning the
\* last three tokens.
C4_Witness ==
    /\ Method("parse_expr")
    /\ header = <<Num, Punct("Hyphen"), Num, Punct("Hyphen"), Num>>
    /\ Clean(Result)
    /\ Get(Result.r).v.t = "Sub"
    /\ Get(Result.r).v.l.v.t = "Number"
    /\ Get(Result.r).v.r.v.t = "Sub"
    /\ Get(Result.r).v.r.span = SpanOf(3, 6)

\* parse_expr is the binop of the summands, parse_term that of the factors.
IsBinopMethod == Method("parse_expr") \/ Method("parse_term")
OperandName == IF Method("parse_expr") THEN "summand" ELSE "factor"
Operators == IF Method("parse_expr") THEN {"Plus", "Hyphen"} ELSE {"Star", "Slash"}

\* The left operand, the parser at the token behind it, the right operand.
LeftOperand == IF Method("parse_expr") THEN parse_term(P0) ELSE parse_factor(P0)
AtOperator == skip_whitespace(LeftOperand.p)
RightOperand == Call(Get(out).method, skip_whitespace(eat(AtOperator)), None)

\* An operator of the tier was consumed and the right operand is missing.
MissingRight ==
    /\ IsBinopMethod
    /\ IsSome(LeftOperand.r)
    /\ peekk(AtOperator) \in Operators
    /\ ~IsSome(RightOperand.r)

MissingRightProblem ==
    Spanned(<<"missing right", OperandName>>,
            SpanMerge(Get(Buffered(AtOperator)).span, Get(LeftOperand.r).span))

\* A hyphen at the start of the header is not followed by a value.
DanglingMinus ==
    /\ IsBinopMethod
    /\ peekk(P0) = "Hyphen"
    /\ ~IsSome(parse_value(skip_whitespace(eat(P0))).r)

\* C5: when an operator of the tier was consumed and no right operand is
\* parsed, parse_binop returns the left operand as it is and records, behind
\* the problems of the right operand, one "missing right summand" (or
\* "factor") problem over the merge of the spans of the operator and of the
\* left operand.  A hyphen not followed by a value yields no expression and
\* the problem "dangling minus" over the hyphen.  For "1--" the problems are
\* "dangling minus", then "missing right summand", and the expression is 1.
C5_MissingRightOperand ==
    /\ MissingRight =>
           /\ Result.r = LeftOperand.r
           /\ Problems(Result) = Append(Problems(RightOperand), MissingRightProblem)
    /\ DanglingMinus =>
           /\ Result.r = None
           /\ Problems(Result) = <<Spanned(<<"dangling minus">>, SpanOf(1, 2))>>
    /\ Method("parse_expr") /\ header = <<Num, Punct("Hyphen"), Punct("Hyphen")>> =>
           /\ Result.r = Some(Spanned([t |-> "Number", n |-> Num.x], SpanOf(1, 2)))
           /\ Problems(Result) =
                  <<Spanned(<<"dangling minus">>, SpanOf(3, 4)),
                    Spanned(<<"missing right", "summand">>, SpanOf(1, 3))>>

\* 1 * - was parsed by parse_term: the hyphen dangles, the factor is missing.
C5_Witness ==
    /\ Method("parse_term")
    /\ header = <<Num, Punct("Star"), Punct("Hyphen")>>
    /\ MissingRight
    /\ Len(Problems(Result)) = 2
    /\ Problems(Result)[2].v = <<"missing right", "factor">>
    /\ IsSome(Result.r)

\* The collection of the method: the tuple behind the opening parenthesis,
\* or the arguments.
IsCollectionMethod == Method("parse_tuple") \/ Method("parse_func_args")
CollectionStart == IF Method("parse_tuple") THEN eat(Fill(P0)) ELSE P0
CollectionEndToken == IF Method("parse_tuple") THEN "RightParen" ELSE "None"
CollectionKind == IF Method("parse_tuple") THEN "value" ELSE "argument"
CollectionItems(r) == IF Method("parse_tuple") THEN r.v.v.items ELSE r.args
CountItems(r) ==
    IF Method("parse_tuple") THEN Len(r.v.v.items)
    ELSE Len(r.args.pos) + Len(r.args.key)

\* The calls of the from_fn closure: the parser before and what was yielded.
RECURSIVE Calls(_, _)
Calls(p, can_be_coerced) ==
    LET y == collection_next(p, CollectionEndToken, CollectionKind, can_be_coerced)
    IN  <<[before |-> skip_whitespace(p), after |-> y]>>
        \o (IF y.yield = "stop" THEN <<>> ELSE Calls(y.p, y.can_be_coerced))

CallSet(calls) == {calls[i] : i \in 1..Len(calls)}

\* A call that found a comma where an item is expected: no item, the comma
\* consumed, one problem over the comma.
CommaForItem(call) ==
    /\ call.after.yield = "skip"
    /\ Consumed(call.after.p) = Consumed(call.before) + 1
    /\ call.after.p.feedback.problems =
           Append(call.before.feedback.problems,
                  Spanned(<<"expected", CollectionKind, "found", "comma">>,
                          Get(Buffered(call.before)).span))

\* The header with a comma put before the end of the collection.
WithTrailingComma ==
    IF Method("parse_tuple")
    THEN SubSeq(header, 1, Len(header) - 1) \o <<Punct("Comma"), Punct("RightParen")>>
    ELSE Append(header, Punct("Comma"))

Reparsed(hd) ==
    IF Method("parse_tuple") THEN parse_tuple(Fill(FuncParserNew(hd)))
    ELSE parse_func_args(FuncParserNew(hd))

\* The header is a collection of items separated by commas: it was parsed
\* completely, without a problem, it has an item and no trailing comma.
ValidItems ==
    /\ IsCollectionMethod
    /\ Complete(Result.p)
    /\ Problems(Result) = <<>>
    /\ CountItems(Result) > 0
    /\ header[IF Method("parse_tuple") THEN Len(header) - 1 ELSE Len(header)].k # "Comma"

\* C6: a collection of items separated by commas parses to the same items,
\* without a problem, when a comma is put before its end; a call of the
\* closure that finds a comma where an item is expected adds no item and
\* records exactly one problem "expected <item>, found comma" over the
\* comma, so (,) is an empty tuple with that one problem.
C6_TrailingComma ==
    /\ ValidItems =>
           /\ CollectionItems(Reparsed(WithTrailingComma)) = CollectionItems(Result)
           /\ Problems(Reparsed(WithTrailingComma)) = <<>>
           /\ Complete(Reparsed(WithTrailingComma).p)
    /\ IsCollectionMethod =>
           \A call \in CallSet(Calls(CollectionStart, TRUE)) :
               peekk(call.before) = "Comma" => CommaForItem(call)
    /\ Method("parse_tuple") /\ header = Group(<<Punct("Comma")>>) =>
           /\ Result.v.v.items = <<>>
           /\ Problems(Result) =
                  <<Spanned(<<"expected", "value", "found", "comma">>, SpanOf(2, 3))>>

\* The tuple (1,x) was parsed: two items that stay the same with a trailing
\* comma, (1,x,).
C6_Witness ==
    /\ Method("parse_tuple")
    /\ header = Group(<<Num, Punct("Comma"), IdX>>)
    /\ ValidItems
    /\ Len(Result.v.v.items) = 2
    /\ Len(Reparsed(WithTrailingComma).v.v.items) = 2

\* A tuple without another collection inside it.
IsFlat == \A i \in 2..Len(header) : header[i].k # "LeftParen"

\* C7: the boolean that parse_collection_comma_aware returns for a tuple is
\* true only if no comma is among the tokens the collection consumed.
C7_CoercibleOnlyWithoutComma ==
    Method("parse_tuple") /\ IsFlat /\ Result.can_be_coerced =>
        \A i \in 2..Consumed(Result.p) : header[i].k # "Comma"

----------------------------------------------------------------------------
(* Further properties of the body parser (Spec, SpecFunc)                  *)

\* The source is plain: whitespace runs and text runs only.
IsPlain(ts) == \A i \in 1..Len(ts) : ts[i].v.k \in {"Space", "Text"}

\* The node of a whitespace run or of a text run.
SegmentNode(token) ==
    IF token.v.k = "Text" THEN [t |-> "Text", text |-> token.v.x]
    ELSE IF Newlines(token.v.x) >= 2 THEN [t |-> "Parbreak"]
    ELSE [t |-> "Space"]

Segmentation(ts) == [i \in 1..Len(ts) |-> Spanned(SegmentNode(ts[i]), ts[i].span)]

----------------------------------------------------------------------------
(* Further properties of the function parser's methods (SpecExpr)          *)

\* The span of the first token of the header.
FirstSpan == SpanOf(HeaderStart, HeaderStart + Width(header[1]))

\* C12: parse_value on a hex literal consumes exactly that token and returns
\* a color over the span of the literal: the color of the literal and no
\* problem if the literal is a valid color, the healed opaque black
\* (0, 0, 0, 255) and exactly one problem "invalid color" over the span of
\* the literal otherwise.
C12_HexColorHealing ==
    Method("parse_value") /\ peekk(P0) = "ExprHex" =>
        /\ Consumed(Result.p) = 1
        /\ IsSome(Result.r)
        /\ Get(Result.r).span = FirstSpan
        /\ Get(Result.r).v.t = "Color"
        /\ IF IsValidColor(header[1].x)
           THEN /\ Get(Result.r).v = [t |-> "Color", rgba |-> header[1].x, healed |-> FALSE]
                /\ Problems(Result) = <<>>
           ELSE /\ Get(Result.r).v =
                       [t |-> "Color", rgba |-> <<0, 0, 0, 255>>, healed |-> TRUE]
                /\ Problems(Result) = <<Spanned(<<"invalid color">>, FirstSpan)>>

\* A literal with a wrong digit, before another literal, was healed.
C12_Witness ==
    /\ Method("parse_value")
    /\ Len(header) = 2
    /\ header[1] = Tok("ExprHex", <<"g", "0", "0">>)
    /\ Get(Result.r).v.healed
    /\ Len(Problems(Result)) = 1
    /\ Result.p.peeked = "None"

----------------------------------------------------------------------------
(* Properties of the header of a function (SpecFunc)                       *)

\* The first token of hd at or behind i that is not whitespace (Len(hd) + 1
\* if there is none).
RECURSIVE FirstAt(_, _)
FirstAt(hd, i) ==
    IF i > Len(hd) THEN i
    ELSE IF IsWhitespace(hd[i]) THEN FirstAt(hd, i + 1)
    ELSE i

HeaderTokens == Tokens(HeaderStart, header)
NameAt == FirstAt(header, 1)
HasName == NameAt <= Len(header) /\ header[NameAt].k = "ExprIdent"
AfterName == FirstAt(header, NameAt + 1)

ParsedHeader == parse_func_header(FuncParserNew(header))

\* The arguments behind the colon, parsed on their own.
ArgsBehindColon ==
    parse_func_args(FuncParserAt(HeaderTokens[AfterName].span.end,
                                 SubSeq(header, AfterName + 1, Len(header))))

\* The header has the name and args; its parser recorded fb.
HeaderIs(h, args, fb) ==
    /\ h.r = Some(FuncHeader(Spanned(Ident(header[NameAt].x), HeaderTokens[NameAt].span),
                             args))
    /\ h.p.feedback = fb

\* C13: behind the name of a header and optional whitespace, a colon starts
\* the argument list; any other token yields exactly one zero-width problem
\* "expected colon" at the end of the name, no arguments and nothing else
\* from the rest of the header; the end of the header yields no arguments
\* and no problem.  The header is returned in the three cases and the name
\* is looked up.
C13_ColonAfterName ==
    IsSome(out) /\ HasName =>
        /\ CASE AfterName > Len(header) -> HeaderIs(ParsedHeader, FuncArgsNew, FeedbackNew)
             [] AfterName <= Len(header) /\ header[AfterName].k = "Colon" ->
                    HeaderIs(ParsedHeader, ArgsBehindColon.args, ArgsBehindColon.p.feedback)
             [] OTHER ->
                    HeaderIs(ParsedHeader, FuncArgsNew,
                             Error(FeedbackNew, SpanAt(HeaderTokens[NameAt].span.end),
                                   <<"expected", "colon">>))
        /\ Len(NameDecos(Get(out).feedback)) = 1
        /\ Get(out).output.model.header = Get(ParsedHeader.r)

\* The header "[x 1=]": a number behind the name, and more behind it.
C13_Witness ==
    /\ IsSome(out)
    /\ header = <<IdX, Spc, Num>>
    /\ ParsedHeader.p.feedback.problems =
           <<Spanned(<<"expected", "colon">>, SpanAt(2))>>
    /\ Get(out).output.model.header.args = FuncArgsNew

\* The feedback of the body of the function of the document.
BodyFeedback ==
    IF IsSome(src[1].v.body)
    THEN parse(Get(BodyOf(src[1].v)).span.start, Get(src[1].v.body)).feedback
    ELSE FeedbackNew

\* The only problem of a header without a name.
ExpectedIdentifier ==
    IF NameAt <= Len(header)
    THEN Spanned(<<"expected", "identifier", "found", Name(header[NameAt])>>,
                 HeaderTokens[NameAt].span)
    ELSE Spanned(<<"expected", "identifier">>, SpanAt(HeaderStart))

\* C14: parse_func_header returns None exactly when the first token of the
\* header that is not whitespace is not an identifier; it then records one
\* problem, "expected identifier, found <token>" over that token or, without
\* such a token, a zero-width "expected identifier" at the start of the
\* header, and the function parser records nothing else for the header: no
\* decoration, and no other problem than those of the body.
C14_MissingIdentifier ==
    IsSome(out) =>
        /\ ParsedHeader.r = None <=> ~HasName
        /\ ~HasName =>
               /\ ParsedHeader.p.feedback =
                      [problems |-> <<ExpectedIdentifier>>, decos |-> <<>>]
               /\ Get(out).feedback.problems =
                      <<ExpectedIdentifier>> \o BodyFeedback.problems
               /\ Get(out).feedback.decos = BodyFeedback.decos

\* The header "[ :x]": a colon behind whitespace, and an identifier behind it.
C14_Witness ==
    /\ IsSome(out)
    /\ header = <<Spc, Punct("Colon"), IdX>>
    /\ Get(out).feedback.problems[1] =
           Spanned(<<"expected", "identifier", "found", "colon">>, SpanOf(2, 3))
    /\ Get(out).feedback.decos = <<>>

----------------------------------------------------------------------------
(* Properties of the Function arm of the loop (SpecFunc)                   *)

IsClosingBracket(problem) == problem.v = <<"expected closing bracket">>
ClosingBrackets(problems) == SelectSeq(problems, IsClosingBracket)

\* The problems of feedback behind those the function parser returned.
BehindFunction == SubSeq(feedback.problems, Len(Get(out).feedback.problems) + 1,
                         Len(feedback.problems))

\* C19: on a Function token that is not terminated, parse records exactly
\* one zero-width problem "expected closing bracket" at the end of the
\* token, behind all the problems the function parser returned for the
\* header and the body, whether there are any or not; on a terminated token
\* it records none.  The Model node is emitted either way.
C19_ClosingBracket ==
    src # <<>> =>
        /\ Len(feedback.problems) >= Len(Get(out).feedback.problems)
        /\ BehindFunction =
               IF src[1].v.terminated THEN <<>>
               ELSE <<Spanned(<<"expected closing bracket">>, SpanAt(src[1].span.end))>>
        /\ ClosingBrackets(feedback.problems) = BehindFunction
        /\ model = <<Spanned(Get(out).output, src[1].span)>>
        /\ IsModelNode(model[1])

\* An unterminated function whose header and body both raised problems.
C19_Witness ==
    /\ src # <<>>
    /\ ~src[1].v.terminated
    /\ Len(Get(out).feedback.problems) = 2
    /\ Len(feedback.problems) = 3
    /\ IsClosingBracket(feedback.problems[3])
    /\ Len(model) = 1

----------------------------------------------------------------------------
(* Properties of the nodes of the loop (Spec)                              *)

NodeKinds == {"Space", "Function", "Star", "Underscore", "Backslash", "Raw", "Text"}
IsUnexpectedToken(t) == ~IsCommentToken(t) /\ t.v.k \notin NodeKinds
HasNode(t) == t.v.k \in NodeKinds

\* The node of a token taken alone, at its place in the document.
NodeAlone(token) == Spanned(Get(Match(FeedbackNew, token).output), token.span)

NodesAlone(tokens) == [i \in 1..Len(tokens) |-> NodeAlone(tokens[i])]

NodesInOrder == model = NodesAlone(SelectSeq(src, HasNode))

\* The iteration on an unexpected token: one problem over it, no node.
UnexpectedStep ==
    src' # src /\ IsUnexpectedToken(src'[Len(src')]) =>
        /\ model' = model
        /\ feedback' = Error(feedback, src'[Len(src')].span,
                             <<"unexpected", Name(src'[Len(src')].v)>>)

\* C20: the nodes of the model are, in the order of the tokens, one node
\* for each token that is neither a comment nor of an unexpected kind, each
\* over the span of its token and the same as if the token stood alone; an
\* iteration on a token of an unexpected kind adds exactly one problem
\* "unexpected <name>" over the span of the token and leaves the nodes as
\* they are.
C20_NodesInTokenOrder == []NodesInOrder /\ [][UnexpectedStep]_vars

\* Text, an unexpected token, a space: two nodes around one problem.
C20_Witness ==
    /\ done
    /\ Len(src) = 3
    /\ src[1].v.k = "Text" /\ IsUnexpectedToken(src[2]) /\ src[3].v.k = "Space"
    /\ model = <<NodeAlone(src[1]), NodeAlone(src[3])>>
    /\ feedback.problems = <<Spanned(<<"unexpected", Name(src[2].v)>>, src[2].span)>>

----------------------------------------------------------------------------
(* Properties of the escaping utilities (SpecEscape)                       *)

\* s[i] is the character behind the backslash of an escape.
RECURSIVE IsEscaped(_, _)
IsEscaped(s, i) == i > 1 /\ s[i - 1] = "\\" /\ ~IsEscaped(s, i - 1)

\* s[i] is the backslash of an escape.
IsEscape(s, i) == s[i] = "\\" /\ ~IsEscaped(s, i)

RECURSIVE Flatten(_)
Flatten(pieces) ==
    IF Len(pieces) = 0 THEN <<>> ELSE pieces[1] \o Flatten(Tail(pieces))

\* What s[i] contributes to the unescaped string.
StringPiece(s, i) ==
    CASE IsEscaped(s, i) -> <<>>
      [] IsEscape(s, i) /\ i = Len(s) -> <<"\\">>
      [] IsEscape(s, i) /\ i < Len(s) /\ s[i + 1] = "\\" -> <<"\\">>
      [] IsEscape(s, i) /\ i < Len(s) /\ s[i + 1] = "\"" -> <<"\"">>
      [] IsEscape(s, i) /\ i < Len(s) /\ s[i + 1] = "n" -> <<"\n">>
      [] IsEscape(s, i) /\ i < Len(s) /\ s[i + 1] = "t" -> <<"\t">>
      [] IsEscape(s, i) /\ i < Len(s) -> <<"\\", s[i + 1]>>
      [] OTHER -> <<s[i]>>

HasBackslash(s) == \E i \in 1..Len(s) : s[i] = "\\"

\* C17: unescape_string replaces backslash-backslash, backslash-quote,
\* backslash-n and backslash-t by the backslash, the quote, the newline and
\* the tab; it keeps any other escaped character with its backslash and a
\* lone backslash at the end; it copies every other character, in order (a
\* string without a backslash is returned as it is).
C17_UnescapeString ==
    Method("unescape_string") =>
        /\ Result = Flatten([i \in 1..Len(header) |-> StringPiece(header, i)])
        /\ ~HasBackslash(header) => Result = header

\* The string  \a\t  : an escape that is kept, and the escape of the tab.
C17_Witness ==
    /\ Method("unescape_string")
    /\ header = <<"\\", "a", "\\", "t">>
    /\ Result = <<"\\", "a", "\t">>

\* The line breaks of raw: every newline character, a line feed right
\* behind a carriage return counting with it.
IsSplitPoint(raw, i) ==
    /\ is_newline_char(raw[i])
    /\ ~(raw[i] = "\n" /\ i > 1 /\ raw[i - 1] = "\r")

SplitPoints(raw) == Cardinality({i \in 1..Len(raw) : IsSplitPoint(raw, i)})

HasNewline(raw) == \E i \in 1..Len(raw) : is_newline_char(raw[i])

\* What raw[i] contributes to a raw text of one line.
RawPiece(raw, i) ==
    CASE IsEscaped(raw, i) -> <<>>
      [] IsEscape(raw, i) /\ i < Len(raw) /\ raw[i + 1] = Backtick -> <<Backtick>>
      [] IsEscape(raw, i) /\ i < Len(raw) -> <<"\\", raw[i + 1]>>
      [] OTHER -> <<raw[i]>>

\* C18: unescape_raw returns at least one line, and one line more than
\* there are line breaks in its input, where a carriage return with the
\* line feed right behind it is one line break and every other newline
\* character is one; only backslash-backtick is unescaped, any other
\* backslash sequence and a backslash at the end are kept.
C18_UnescapeRawLines ==
    Method("unescape_raw") =>
        /\ Len(Result) >= 1
        /\ Len(Result) = 1 + SplitPoints(header)
        /\ ~HasNewline(header) =>
               Result = <<Flatten([i \in 1..Len(header) |-> RawPiece(header, i)])>>

----------------------------------------------------------------------------
(* Properties of the loop of the collection parser (SpecCollect)           *)

Stopped == IsSome(out) /\ Get(out).stopped

\* What the next call of the closure yields.
NextYield ==
    collection_next(Get(out).p, Get(out).end, Get(out).kind, Get(out).can_be_coerced).yield

\* A call of the closure consumes a token, or ends the collection, or the
\* call behind it ends the collection.
Progress ==
    IsSome(out) /\ out' # out =>
        \/ Consumed(Get(out').p) > Consumed(Get(out).p)
        \/ Get(out').stopped
        \/ NextYield' = "stop"

\* C16: the collection parser terminates on every token stream and for the
\* three item grammars (arguments, values of a tuple, pairs of an object):
\* every call of the closure consumes at least one token or is followed by
\* the call that ends the collection, and the loop reaches that call.
C16_CollectionTerminates == <>Stopped /\ [][Progress]_vars

\* The tuple "(=": a token that starts no value is skipped, and the end of
\* the input ends the collection with a problem for the parenthesis.
C16_Witness ==
    /\ Stopped
    /\ Get(out).kind = "value"
    /\ header = <<Punct("LeftParen"), Punct("Equals")>>
    /\ Get(out).items = <<>>
    /\ Len(Get(out).p.feedback.problems) = 2

----------------------------------------------------------------------------
(* Properties of the arguments of a function (SpecCollect)                 *)

\* The token the next call of the closure starts at.
ItemAt == FirstAt(header, Consumed(Get(out).p) + 1)
BehindItem == FirstAt(header, ItemAt + 1)

\* The call of the closure starts at an identifier of an argument list.
AtIdent ==
    /\ IsSome(out)
    /\ Get(out).kind = "argument"
    /\ ItemAt <= Len(header)
    /\ header[ItemAt].k = "ExprIdent"

IdentOfItem == Spanned(Ident(header[ItemAt].x), HeaderTokens[ItemAt].span)

IsKeyword == BehindItem <= Len(header) /\ header[BehindItem].k = "Equals"
IsNamedTuple == ItemAt < Len(header) /\ header[ItemAt + 1].k = "LeftParen"

\* The expression behind the equals sign, parsed on its own.
ValueOfKey ==
    parse_expr(skip_whitespace(FuncParserAt(HeaderTokens[BehindItem].span.end,
                                            SubSeq(header, BehindItem + 1, Len(header)))))

KeyItem(ident, value) ==
    Spanned([t |-> "Key", e |-> [key |-> ident, value |-> value]],
            SpanMerge(ident.span, value.span))

\* The call of the closure on "ident = ..": what it adds to before.
KeywordCall(before, after, ident, value) ==
    /\ after.p.feedback.decos =
           Append(before.p.feedback.decos, Spanned("ArgumentKey", ident.span))
               \o value.p.feedback.decos
    /\ IF IsSome(value.r)
       THEN after.items = Append(before.items, KeyItem(ident, Get(value.r)))
       ELSE /\ after.items = before.items
            /\ Len(after.p.feedback.problems) =
                   Len(before.p.feedback.problems) + Len(value.p.feedback.problems) + 1
            /\ SubSeq(after.p.feedback.problems[Len(after.p.feedback.problems)].v, 1, 2)
                   = <<"expected", "value">>

\* The call of the closure on an identifier alone.
PositionalCall(before, after, ident) ==
    /\ after.items = Append(before.items, Spanned([t |-> "Pos", e |-> ident.v], ident.span))
    /\ after.p.feedback.decos = before.p.feedback.decos

\* C15: in an argument list, an identifier followed (behind whitespace or
\* comments) by "=" makes a Key argument of the identifier and the
\* expression behind, over the span from the key to the value, and an
\* ArgumentKey decoration over the identifier; without an expression
\* behind the "=", a problem "expected value" is recorded, no argument is
\* added for the identifier and the decoration is recorded all the same.
\* An identifier followed by neither "=" nor "(" is a positional Ident
\* argument.
C15_KeywordArguments ==
    [][AtIdent /\ out' # out =>
          CASE IsNamedTuple -> TRUE
            [] ~IsNamedTuple /\ IsKeyword ->
                   KeywordCall(Get(out), Get(out'), IdentOfItem, ValueOfKey)
            [] OTHER -> PositionalCall(Get(out), Get(out'), IdentOfItem)]_vars

\* The arguments "x=,x": a key without a value, and an identifier alone.
C15_Witness ==
    /\ Stopped
    /\ Get(out).kind = "argument"
    /\ header = <<IdX, Punct("Equals"), Punct("Comma"), IdX>>
    /\ Get(out).items = <<Spanned([t |-> "Pos", e |-> Ident(IdX.x)], SpanOf(4, 5))>>
    /\ Get(out).p.feedback.decos = <<Spanned("ArgumentKey", SpanOf(1, 2))>>
    /\ Get(out).p.feedback.problems =
           <<Spanned(<<"expected", "value", "found", "comma">>, SpanOf(3, 4))>>

----------------------------------------------------------------------------
(* Properties of the pairs of an object (SpecCollect)                      *)

\* The call of the closure starts at a key that no colon follows.
AtKeyWithoutColon ==
    /\ IsSome(out)
    /\ Get(out).kind = "pair"
    /\ ItemAt <= Len(header)
    /\ header[ItemAt].k = "ExprIdent"
    /\ ~(BehindItem <= Len(header) /\ header[BehindItem].k = "Colon")

\* The call on such a key: one problem behind the key, and the parser in
\* front of the token at behind.
ColonMissed(before, after, key, behind) ==
    /\ after.p.feedback.problems =
           Append(before.p.feedback.problems,
                  Spanned(<<"expected", "colon">>, SpanAt(HeaderTokens[key].span.end)))
    /\ after.p.feedback.decos = before.p.feedback.decos
    /\ after.items = before.items
    /\ ~after.stopped
    /\ Consumed(after.p) = behind - 1

\* What the loop yields on the tokens from i on, parsed on their own.
YieldFrom(i) ==
    collection_next(FuncParserAt(HeaderTokens[i].span.start,
                                 SubSeq(header, i, Len(header))),
                    "RightBrace", "pair", TRUE)

\* The loop goes on at the token behind the key as a loop over the tokens
\* from there on would: it ends at the brace, or parses the next item.
Reevaluated(yield, behind) ==
    behind <= Len(header) =>
        /\ yield.yield = YieldFrom(behind).yield
        /\ yield.yield = "stop" <=> header[behind].k = "RightBrace"
        /\ yield.item = YieldFrom(behind).item
        /\ Consumed(yield.p) = behind - 1 + Consumed(YieldFrom(behind).p)

\* The parser of the loop in front of the token at i, with the problem of
\* the colon behind the key recorded.
InFrontOf(i, key) ==
    Fill([Get(out).p EXCEPT
            !.feedback = Error(@, SpanAt(HeaderTokens[key].span.end),
                               <<"expected", "colon">>),
            !.n = i - 1, !.peeked = "None"])

\* C21: when the colon behind the key of an object is missing, one
\* zero-width problem "expected colon" is recorded directly behind the key,
\* in front of any whitespace; no pair and no ObjectKey decoration is
\* added; the token behind the key is not consumed, and the loop evaluates
\* it again, as the end of the object or as the start of the next item, so
\* that a pair behind it is parsed.
C21_MissingColon ==
    [][AtKeyWithoutColon /\ out' # out =>
          /\ ColonMissed(Get(out), Get(out'), ItemAt, BehindItem)
          /\ Get(out').p = InFrontOf(BehindItem, ItemAt)
          /\ Reevaluated(collection_next(InFrontOf(BehindItem, ItemAt), "RightBrace",
                                         "pair", Get(out).can_be_coerced),
                         BehindItem)]_vars

\* The object "{x x:x}": a key without a colon, and a pair behind it.
C21_Witness ==
    /\ Stopped
    /\ Get(out).kind = "pair"
    /\ header = <<Punct("LeftBrace"), IdX, Spc, IdX, Punct("Colon"), IdX>>
    /\ Get(out).p.feedback.problems[1] = Spanned(<<"expected", "colon">>, SpanAt(3))
    /\ Len(Get(out).items) = 1
    /\ Get(out).items[1].v.key = Spanned(Ident(IdX.x), SpanOf(4, 5))
    /\ Get(out).p.feedback.decos = <<Spanned("ObjectKey", SpanOf(4, 5))>>

----------------------------------------------------------------------------
(* Properties of the spans of collections (SpecExpr)                       *)

\* parse_value returned the tuple or the object that starts the header
\* (there is no other collection inside it).
IsCollectionValue ==
    /\ Method("parse_value")
    /\ peekk(P0) \in {"LeftParen", "LeftBrace"}
    /\ \A i \in 2..Len(header) : header[i].k \notin {"LeftParen", "LeftBrace"}
    /\ IsSome(Result.r)
    /\ Get(Result.r).v.t \in {"Tuple", "Object"}

\* The source of the collection: from the start of the opening delimiter to
\* the end of the last token the parser consumed, which is the closing
\* delimiter or the last token of the input.
SourceSpan ==
    SpanOf(HeaderTokens[1].span.start, HeaderTokens[Consumed(Result.p)].span.end)

\* C22: the span of a tuple or an object that parse_value returns is the
\* span of its source: from the start of the opening delimiter to the end
\* of the closing delimiter, or to the end of the input when the collection
\* is not closed.
C22_CollectionSpans == IsCollectionValue => Get(Result.r).span = SourceSpan

----------------------------------------------------------------------------
(* Properties of the flag of the collection parser (SpecCollect)           *)

\* The loop of a collection with an end token: a tuple or an object.
HasEndToken == IsSome(out) /\ Get(out).end # "None"

\* C23: a collection with an end token whose flag is (still) true holds at
\* most one item, whatever the tokens are (the collection may be unclosed,
\* tokens may have been skipped with a problem); so the coercion of
\* parse_value, which takes the last item of the tuple, drops no item.
C23_CoercibleHoldsOneItem ==
    HasEndToken /\ Get(out).can_be_coerced => Len(Get(out).items) <= 1

\* The tuple "(=1": a skipped token, one value, no closing parenthesis.
C23_Witness ==
    /\ Stopped
    /\ Get(out).kind = "value"
    /\ header = <<Punct("LeftParen"), Punct("Equals"), Num>>
    /\ Get(out).can_be_coerced
    /\ Len(Get(out).items) = 1
    /\ Len(Get(out).p.feedback.problems) = 2

====
